---- MODULE Spec2Model ----
(***************************************************************************)
(* Model of src/composables/node/useNodePricing.ts: the asynchronous,      *)
(* per-node memoizing evaluation of pricing badges.                        *)
(*                                                                         *)
(* JavaScript values are records [t |-> <typeof tag>, v |-> <payload>].    *)
(* Numbers are fixed-point: the integer payload counts units of 1/Scale.   *)
(* Strings are TLA+ strings; string functions that TLA+ lacks (lower-case, *)
(* trim, substring test, numeric parse) are tables over the strings that   *)
(* occur in the model.                                                     *)
(***************************************************************************)
EXTENDS Integers, Sequences, FiniteSets, TLC

\* ------------------------------------------------------------------------
\* Bounds
\* ------------------------------------------------------------------------
\* Evaluator invocations in one run (rule._compiled.evaluate calls).
MaxEvals == 3

\* ------------------------------------------------------------------------
\* Representation
\* ------------------------------------------------------------------------
\* Fixed-point scale of the modelled numbers (five decimal places).
Scale == 10 ^ 5

\* ------------------------------------------------------------------------
\* JavaScript values
\* ------------------------------------------------------------------------
Undefined == [t |-> "undefined", v |-> ""]

Null == [t |-> "null", v |-> ""]

Str(s) == [t |-> "string", v |-> s]

\* A finite number, x = n / Scale.
Num(n) == [t |-> "number", v |-> n]

\* NaN, Infinity, -Infinity: typeof "number", not finite.
NonFinite(s) == [t |-> "nonfinite", v |-> s]

Bool(b) == [t |-> "boolean", v |-> IF b THEN "true" ELSE "false"]

\* An object-shaped value; v is its JSON.stringify text.
Obj(json) == [t |-> "object", v |-> json]

\* String(x) of a finite number: integer part, then the fraction without
\* its trailing zeros.
RECURSIVE FracDigits(_, _)
FracDigits(f, unit) ==
    IF f = 0 THEN ""
    ELSE ToString(f \div unit) \o FracDigits(f % unit, unit \div 10)

NumberToString(n) ==
    LET a == IF n < 0 THEN 0 - n ELSE n
        body == ToString(a \div Scale)
                  \o (IF a % Scale = 0 THEN ""
                      ELSE "." \o FracDigits(a % Scale, Scale \div 10))
    IN  IF n < 0 THEN "-" \o body ELSE body

\* String(v)
JsString(v) ==
    CASE v.t = "undefined" -> "undefined"
      [] v.t = "null"      -> "null"
      [] v.t = "string"    -> v.v
      [] v.t = "number"    -> NumberToString(v.v)
      [] v.t = "nonfinite" -> v.v
      [] v.t = "boolean"   -> v.v
      [] OTHER             -> "[object Object]"

\* String.prototype.trim
Trim(s) ==
    CASE s = " 5 "    -> "5"
      [] s = " "      -> ""
      [] s = " TRUE " -> "TRUE"
      [] OTHER        -> s

\* Mutant of ToLowerCase: the text is left as it is.
ToLowerCase_Identity(s) == s

\* String.prototype.toLowerCase
ToLowerCase(s) ==
    CASE s = "TRUE"             -> "true"
      [] s = "NaN"              -> "nan"
      [] s = "Infinity"         -> "infinity"
      [] s = "[object Object]"  -> "[object object]"
      [] s = "True"             -> "true"
      [] s = "False"            -> "false"
      [] s = "Gemini-2.5-Flash" -> "gemini-2.5-flash"
      [] s = "Veo-2.0"          -> "veo-2.0"
      [] OTHER                  -> s

\* Number(t) of a trimmed, non-empty string: a finite number, or a
\* non-finite one (NaN for text that is no numeric literal).
NumberOfString(t) ==
    CASE t = "5"        -> Num(5 * Scale)
      [] t = "1"        -> Num(Scale)
      [] t = "0.04"     -> Num(4 * (Scale \div 100))
      [] t = "Infinity" -> NonFinite("Infinity")
      [] OTHER          -> NonFinite("NaN")

\* ------------------------------------------------------------------------
\* Normalization helpers
\* ------------------------------------------------------------------------
\* Mutant of asFiniteNumber: what is no finite number counts as zero.
asFiniteNumber_ZeroDefault(v) == IF v.t = "number" THEN v ELSE Num(0)

asFiniteNumber(v) ==
    CASE v.t \in {"null", "undefined"} -> Null
      [] v.t = "number"    -> v
      [] v.t = "nonfinite" -> Null
      [] v.t = "string"    ->
            LET t == Trim(v.v)
            IN  IF t = "" THEN Null
                ELSE LET n == NumberOfString(t)
                     IN  IF n.t = "number" THEN n ELSE Null
      [] OTHER             -> Null

normalizeWidgetValue(raw) ==
    LET s == IF raw.t \in {"undefined", "null"} THEN ""
             ELSE ToLowerCase(Trim(JsString(raw)))
        n == asFiniteNumber(raw)
        b == IF raw.t = "boolean" THEN raw
             ELSE IF raw.t = "string"
                  THEN LET ls == ToLowerCase(Trim(raw.v))
                       IN  IF ls = "true" THEN Bool(TRUE)
                           ELSE IF ls = "false" THEN Bool(FALSE)
                           ELSE Null
                  ELSE Null
    IN  [raw |-> raw, s |-> s, n |-> n, b |-> b]

\* ------------------------------------------------------------------------
\* Credit formatting
\* ------------------------------------------------------------------------
\* Credits per US dollar of the currency conversion.
CreditsPerUsd == 211

\* formatCreditsFromUsd({usd, numberOptions: DEFAULT_NUMBER_OPTIONS}): the
\* credits of a USD amount with no fraction digits (rounded half up).
formatCreditsValue(usd) ==
    ToString((usd.v * CreditsPerUsd * 2 + Scale) \div (2 * Scale))

\* JavaScript truthiness of a value.
Truthy(v) ==
    CASE v.t \in {"undefined", "null"} -> FALSE
      [] v.t = "nonfinite" -> v.v # "NaN"
      [] v.t = "string"  -> v.v # ""
      [] v.t = "number"  -> v.v # 0
      [] v.t = "boolean" -> v.v = "true"
      [] OTHER           -> TRUE

\* CreditFormatOptions: every field is a value, Undefined when absent.
NoFormat ==
    [t |-> "object", suffix |-> Undefined, note |-> Undefined,
     approximate |-> Undefined, separator |-> Undefined]

makePrefix(approximate) == IF Truthy(approximate) THEN "~" ELSE ""

\* Mutant of makeSuffix: an absent suffix gives no suffix.
makeSuffix_NoDefault(suffix) ==
    IF suffix.t \in {"undefined", "null"} THEN "" ELSE JsString(suffix)

makeSuffix(suffix) ==
    IF suffix.t \in {"undefined", "null"} THEN "/Run" ELSE JsString(suffix)

appendNote(note) == IF Truthy(note) THEN " " \o JsString(note) ELSE ""

formatCreditsLabel(usd, fmt) ==
    makePrefix(fmt.approximate) \o formatCreditsValue(usd) \o " credits"
        \o makeSuffix(fmt.suffix) \o appendNote(fmt.note)

\* Mutant of RangeValue: equal amounts are not collapsed.
RangeValue_NoCollapse(min, max) == min \o "-" \o max

\* const rangeValue = min === max ? min : `${min}-${max}`
RangeValue(min, max) == IF min = max THEN min ELSE min \o "-" \o max

formatCreditsRangeLabel(minUsd, maxUsd, fmt) ==
    LET min == formatCreditsValue(minUsd)
        max == formatCreditsValue(maxUsd)
        rangeValue == RangeValue(min, max)
    IN  makePrefix(fmt.approximate) \o rangeValue \o " credits"
            \o makeSuffix(fmt.suffix) \o appendNote(fmt.note)

\* Mutant of Join: the parts are joined last to first.
RECURSIVE Join_Reversed(_, _)
Join_Reversed(parts, sep) ==
    IF Len(parts) = 0 THEN ""
    ELSE IF Len(parts) = 1 THEN parts[1]
    ELSE Join_Reversed(Tail(parts), sep) \o sep \o parts[1]

\* Array.prototype.join
RECURSIVE Join(_, _)
Join(parts, sep) ==
    IF Len(parts) = 0 THEN ""
    ELSE IF Len(parts) = 1 THEN parts[1]
    ELSE parts[1] \o sep \o Join(Tail(parts), sep)

formatCreditsListLabel(usdValues, fmt) ==
    LET parts == [k \in 1..Len(usdValues) |-> formatCreditsValue(usdValues[k])]
        value == Join(parts, IF fmt.separator.t \in {"undefined", "null"}
                             THEN "/" ELSE JsString(fmt.separator))
    IN  makePrefix(fmt.approximate) \o value \o " credits"
            \o makeSuffix(fmt.suffix) \o appendNote(fmt.note)

\* ------------------------------------------------------------------------
\* Result formatting
\* ------------------------------------------------------------------------
\* An object result: its fields are values, Undefined when absent; format
\* is a CreditFormatOptions record or Undefined.
PObj(type, text, usd, min_usd, max_usd, format) ==
    [t |-> "object", type |-> type, text |-> text, usd |-> usd,
     min_usd |-> min_usd, max_usd |-> max_usd, format |-> format]

Arr(items) == [t |-> "array", v |-> items]

UsdResult(usd, format) ==
    PObj(Str("usd"), Undefined, usd, Undefined, Undefined, format)

RangeResult(min_usd, max_usd, format) ==
    PObj(Str("range_usd"), Undefined, Undefined, min_usd, max_usd, format)

ListResult(items, format) ==
    PObj(Str("list_usd"), Undefined, Arr(items), Undefined, Undefined, format)

TextResult(text) ==
    PObj(Str("text"), text, Undefined, Undefined, Undefined, Undefined)

\* Mutant of MergeFormat: a field present in defaults wins.
MergeFormat_DefaultsWin(defaults, format) ==
    IF format.t \in {"undefined", "null"} THEN defaults
    ELSE [t |-> "object",
          suffix |-> IF defaults.suffix.t = "undefined"
                     THEN format.suffix ELSE defaults.suffix,
          note |-> IF defaults.note.t = "undefined"
                   THEN format.note ELSE defaults.note,
          approximate |-> IF defaults.approximate.t = "undefined"
                          THEN format.approximate ELSE defaults.approximate,
          separator |-> IF defaults.separator.t = "undefined"
                        THEN format.separator ELSE defaults.separator]

\* { ...defaults, ...(format ?? {}) }: a field present in format wins.
MergeFormat(defaults, format) ==
    IF format.t \in {"undefined", "null"} THEN defaults
    ELSE [t |-> "object",
          suffix |-> IF format.suffix.t = "undefined"
                     THEN defaults.suffix ELSE format.suffix,
          note |-> IF format.note.t = "undefined"
                   THEN defaults.note ELSE format.note,
          approximate |-> IF format.approximate.t = "undefined"
                          THEN defaults.approximate ELSE format.approximate,
          separator |-> IF format.separator.t = "undefined"
                        THEN defaults.separator ELSE format.separator]

\* items.filter((x) => x != null)
RECURSIVE FilterNonNull(_)
FilterNonNull(items) ==
    IF Len(items) = 0 THEN << >>
    ELSE (IF Head(items).t \in {"null", "undefined"} THEN << >>
          ELSE << Head(items) >>) \o FilterNonNull(Tail(items))

\* Mutant of IsType: a result without a type tag passes for a usd result.
IsType_MissingIsUsd(result, tag) ==
    result.type = Str(tag) \/ (tag = "usd" /\ result.type = Undefined)

\* r.type === tag
IsType(result, tag) == result.type = Str(tag)

formatPricingResult(result, defaults) ==
    IF result.t # "object" THEN ""
    ELSE IF IsType(result, "text")
    THEN (IF result.text.t \in {"undefined", "null"} THEN "" ELSE JsString(result.text))
    ELSE IF IsType(result, "usd")
    THEN LET usd == asFiniteNumber(result.usd)
         IN  IF usd = Null THEN ""
             ELSE formatCreditsLabel(usd, MergeFormat(defaults, result.format))
    ELSE IF IsType(result, "range_usd")
    THEN LET minUsd == asFiniteNumber(result.min_usd)
             maxUsd == asFiniteNumber(result.max_usd)
         IN  IF minUsd = Null \/ maxUsd = Null THEN ""
             ELSE formatCreditsRangeLabel(minUsd, maxUsd,
                                          MergeFormat(defaults, result.format))
    ELSE IF IsType(result, "list_usd")
    THEN IF result.usd.t # "array" THEN ""
         ELSE LET mapped == [k \in 1..Len(result.usd.v) |->
                                asFiniteNumber(result.usd.v[k])]
                  usdValues == FilterNonNull(mapped)
              IN  IF Len(usdValues) = 0 THEN ""
                  ELSE formatCreditsListLabel(usdValues,
                                              MergeFormat(defaults, result.format))
    ELSE ""

\* ------------------------------------------------------------------------
\* Pricing rules
\* ------------------------------------------------------------------------
\* x = units / Scale for a decimal literal written as units of 1/100000.
Usd(units) == Num(units * (Scale \div 100000))

\* The entries of the rule table of the model: three shipped rules,
\* MalformedRuleNode, an entry whose expression jsonata() rejects, and
\* SharedNamesNode, an entry that declares a name more than once.
RuleTypes ==
    {"GeminiNode", "TripoRetargetNode", "Flux2ProImageNode", "MalformedRuleNode",
     "SharedNamesNode"}

\* JsonataPricingRule: depends_on.widgets, depends_on.inputs, and
\* result_defaults (NoFormat when the rule has none).
LOCAL_PRICING_RULES ==
    [k \in RuleTypes |->
        IF k = "GeminiNode"
        THEN [engine |-> "jsonata", widgets |-> << "model" >>, inputs |-> << >>,
              result_defaults |-> [NoFormat EXCEPT !.suffix = Str(" per 1K tokens")]]
        ELSE IF k = "Flux2ProImageNode"
        THEN [engine |-> "jsonata", widgets |-> << "width", "height" >>,
              inputs |-> << "images" >>, result_defaults |-> NoFormat]
        ELSE IF k = "SharedNamesNode"
        THEN [engine |-> "jsonata", widgets |-> << "image", "model", "image" >>,
              inputs |-> << "image", "mask", "model" >>,
              result_defaults |-> NoFormat]
        ELSE [engine |-> "jsonata", widgets |-> << >>, inputs |-> << >>,
              result_defaults |-> NoFormat]]

\* Names that every object literal inherits from Object.prototype:
\* LOCAL_PRICING_RULES[name] is a value that is no rule, and not undefined.
ObjectPrototypeKeys == {"constructor", "toString"}

\* out.includes(n) while the names are collected
RECURSIVE Dedupe(_, _)
Dedupe(names, out) ==
    IF Len(names) = 0 THEN out
    ELSE Dedupe(Tail(names),
                IF \E k \in 1..Len(out) : out[k] = Head(names)
                THEN out ELSE Append(out, Head(names)))

\* getRelevantWidgetNames(nodeType): the list returned, or threw when the
\* call ends in a TypeError (rule.depends_on is undefined for a value that
\* is no rule).
getRelevantWidgetNames(nodeType) ==
    IF nodeType \in RuleTypes
    THEN [threw |-> FALSE,
          names |-> Dedupe(LOCAL_PRICING_RULES[nodeType].widgets
                               \o LOCAL_PRICING_RULES[nodeType].inputs, << >>)]
    ELSE IF nodeType \in ObjectPrototypeKeys
    THEN [threw |-> TRUE, names |-> << >>]
    ELSE [threw |-> FALSE, names |-> << >>]

\* $contains(s, sub) over the strings of the model.
Contains(s, sub) ==
    \/ s = sub
    \/ << s, sub >> \in {<< "veo-2.0-generate-001", "veo-2.0" >>,
                         << "gemini-2.5-flash-lite", "gemini-2.5-flash" >>}

\* The value of a rule's expression on a context (of the rules the nodes of
\* the model evaluate).
Expr(type, ctx) ==
    IF type = "GeminiNode"
    THEN LET m == ctx.w["model"].s
         IN  IF Contains(m, "veo-2.0")
             THEN UsdResult(Usd(50000), [NoFormat EXCEPT !.suffix = Str("/second")])
             ELSE IF Contains(m, "gemini-2.5-flash")
             THEN ListResult(<< Usd(30), Usd(250) >>, Undefined)
             ELSE IF Contains(m, "gemini-2.5-pro")
             THEN ListResult(<< Usd(125), Usd(1000) >>, Undefined)
             ELSE IF Contains(m, "gemini-3-pro-preview")
             THEN ListResult(<< Usd(200), Usd(1200) >>, Undefined)
             ELSE TextResult(Str("Token-based"))
    ELSE IF type = "Flux2ProImageNode"
    THEN LET MP == 1024 * 1024
             px == (ctx.w["width"].n.v \div Scale) * (ctx.w["height"].n.v \div Scale)
             q == (px + MP - 1) \div MP
             outMP == IF q < 1 THEN 1 ELSE q
             outputCost == 3000 + 1500 * (outMP - 1)
         IN  IF ctx.i["images"].connected
             THEN RangeResult(Usd(outputCost + 1500), Usd(outputCost + 12000),
                              [NoFormat EXCEPT !.approximate = Bool(TRUE)])
             ELSE UsdResult(Usd(outputCost), Undefined)
    ELSE UsdResult(Usd(10000), Undefined)

\* compileRule: the rule with its compiled expression (_compiled is the
\* evaluator handle, FALSE when compilation failed and the rule is disabled).
compileRule(rule, compiles) ==
    [engine |-> rule.engine, widgets |-> rule.widgets, inputs |-> rule.inputs,
     result_defaults |-> rule.result_defaults, _compiled |-> compiles]

\* jsonata(rule.expr) returns a compiled expression (TRUE) or throws (FALSE).
Compiles(k) == k # "MalformedRuleNode"

COMPILED_LOCAL_RULES ==
    [k \in RuleTypes |-> compileRule(LOCAL_PRICING_RULES[k], Compiles(k))]

\* ------------------------------------------------------------------------
\* Context and signature
\* ------------------------------------------------------------------------
\* Mutant of Missing: the element that is not found has a link.
Missing_Linked == [name |-> "", value |-> Undefined, link |-> [t |-> "number", v |-> 0]]

\* Array.prototype.find by name: the first element named name, or Missing.
Missing == [name |-> "", value |-> Undefined, link |-> Null]

\* Mutant of FindByName: the name is not compared.
FindByName_First(items, name) ==
    IF Len(items) = 0 THEN Missing ELSE Head(items)

RECURSIVE FindByName(_, _)
FindByName(items, name) ==
    IF Len(items) = 0 THEN Missing
    ELSE IF Head(items).name = name THEN Head(items)
    ELSE FindByName(Tail(items), name)

\* The set of the elements of a sequence.
Range(q) == {q[k] : k \in 1..Len(q)}

buildJsonataContext(node, rule) ==
    [w |-> [name \in Range(rule.widgets) |->
              normalizeWidgetValue(FindByName(node.widgets, name).value)],
     i |-> [name \in Range(rule.inputs) |->
              [connected |-> FindByName(node.inputs, name).link
                                 \notin {Null, Undefined}]]]

\* Mutant of safeValueForSig: every value has the same text.
safeValueForSig_Blank(v) == ""

safeValueForSig(v) ==
    CASE v.t \in {"null", "undefined"} -> ""
      [] v.t \in {"string", "number", "nonfinite", "boolean"} -> JsString(v)
      [] OTHER -> v.v

buildSignature(ctx, rule) ==
    LET wparts == [k \in 1..Len(rule.widgets) |->
                     "w:" \o rule.widgets[k] \o "="
                          \o safeValueForSig(ctx.w[rule.widgets[k]].raw)]
        iparts == [k \in 1..Len(rule.inputs) |->
                     "i:" \o rule.inputs[k] \o "="
                          \o (IF ctx.i[rule.inputs[k]].connected THEN "1" ELSE "0")]
    IN  Join(wparts \o iparts, "|")

\* ------------------------------------------------------------------------
\* Host graph: the nodes whose badges are computed
\* ------------------------------------------------------------------------
Nodes == {"n1", "n2"}

\* The values the host gives the model widget of a GeminiNode.
ModelValues == {Str("gemini-2.5-flash"), Str("veo-2.0-generate-001")}

\* The values the host gives the prompt widget of a Flux2ProImageNode, a
\* widget its rule does not declare.
PromptValues == {Str("a cat"), Str("a dog")}

\* The values of the link of the images input: not connected, or a link id.
LinkValues == {Null, Num(7 * Scale)}

\* LGraphNode as the engine reads it: constructor.nodeData.name and
\* .api_node, widgets ({name, value}) and inputs ({name, link}).
GeminiNodeWith(model) ==
    [type |-> "GeminiNode", api_node |-> TRUE,
     widgets |-> << [name |-> "model", value |-> model] >>, inputs |-> << >>]

TripoNode ==
    [type |-> "TripoRetargetNode", api_node |-> TRUE,
     widgets |-> << >>, inputs |-> << >>]

\* The values the host gives the animation widget of a TripoRetargetNode, a
\* widget its rule does not declare (the rule declares none).
AnimationValues == {Str("preset:walk"), Str("preset:run")}

\* A TripoRetargetNode with its widget and its input slot.
TripoNodeWith(animation, link) ==
    [type |-> "TripoRetargetNode", api_node |-> TRUE,
     widgets |-> << [name |-> "animation", value |-> animation] >>,
     inputs |-> << [name |-> "original_model_task_id", link |-> link] >>]

Flux2NodeWith(prompt, link) ==
    [type |-> "Flux2ProImageNode", api_node |-> TRUE,
     widgets |-> << [name |-> "prompt", value |-> prompt],
                    [name |-> "width", value |-> Num(1024 * Scale)],
                    [name |-> "height", value |-> Num(1024 * Scale)] >>,
     inputs |-> << [name |-> "images", link |-> link] >>]

\* Nodes that get no badge: a node with a rule that is not an api node, an
\* api node without a rule, an api node whose rule failed to compile.
UnpricedNodes ==
    {[type |-> k[1], api_node |-> k[2], widgets |-> << >>, inputs |-> << >>] :
        k \in {<< "TripoRetargetNode", FALSE >>, << "UnpricedNode", TRUE >>,
               << "MalformedRuleNode", TRUE >>}}

\* The states the host can put a node of the kind of nd in.
StatesOf(nd) ==
    IF nd.type = "GeminiNode" THEN {GeminiNodeWith(m) : m \in ModelValues}
    ELSE IF nd.type = "Flux2ProImageNode"
    THEN {Flux2NodeWith(p, l) : p \in PromptValues, l \in LinkValues}
    ELSE IF nd.type = "TripoRetargetNode" /\ Len(nd.widgets) > 0
    THEN {TripoNodeWith(a, l) : a \in AnimationValues, l \in LinkValues}
    ELSE {nd}

\* The graphs of the runs: a Gemini node and a Tripo node,
PricedGraphs ==
    {[n \in Nodes |-> IF n = "n1" THEN g ELSE TripoNode] :
        g \in StatesOf(GeminiNodeWith(Str("gemini-2.5-flash")))}

\* a Gemini node and a node that gets no badge, or a node that gets no
\* badge and a Flux2 node.
MixedGraphs ==
    {[n \in Nodes |-> IF n = "n1" THEN g ELSE u] :
        g \in StatesOf(GeminiNodeWith(Str("gemini-2.5-flash"))),
        u \in UnpricedNodes}
    \cup
    {[n \in Nodes |-> IF n = "n1" THEN u ELSE f] :
        u \in {x \in UnpricedNodes : x.type = "UnpricedNode"},
        f \in StatesOf(Flux2NodeWith(Str("a cat"), Null))}

\* A node that gets no badge and a Tripo node whose widget and input the
\* host changes.
ConstantGraphs ==
    {[n \in Nodes |-> IF n = "n1" THEN u ELSE t] :
        u \in {x \in UnpricedNodes : x.type = "UnpricedNode"},
        t \in StatesOf(TripoNodeWith(Str("preset:walk"), Null))}

\* The states the host can put each node in.
NodeStates(n) ==
    UNION {StatesOf(g[n]) : g \in PricedGraphs \cup MixedGraphs \cup ConstantGraphs}

\* The signature getNodeDisplayPrice computes for a node state ("" when the
\* node has no compiled rule).
SigOf(nd) ==
    IF nd.type \in RuleTypes
    THEN buildSignature(buildJsonataContext(nd, COMPILED_LOCAL_RULES[nd.type]),
                        COMPILED_LOCAL_RULES[nd.type])
    ELSE ""

\* ------------------------------------------------------------------------
\* Async evaluation + cache
\* ------------------------------------------------------------------------
VARIABLES
    nodes,        \* the host's nodes
    evaluator,    \* what evaluate(ctx) of a compiled rule does on each context
    cache,        \* WeakMap node -> CacheEntry {sig, label}
    desiredSig,   \* WeakMap node -> signature
    inflight,     \* WeakMap node -> InflightEntry {sig, promise}
    pending,      \* the promise chains of scheduleEvaluation not yet finished
    pricingTick,  \* the reactive revision counter
    nextId,       \* evaluator invocations so far
    lastCall,     \* the getNodeDisplayPrice call just made, if the last step was one
    started,      \* history: promise chains created by scheduleEvaluation
    superseded,   \* history: running evaluations a later query of their node
                  \* computed another signature for
    evals,        \* history: evaluator invocations per node since the node's
                  \* signature last changed
    touched,      \* history: the pending evaluations whose node's signature
                  \* has changed since they were scheduled
    pure          \* a call of one of the pure functions: its name, its
                  \* arguments, and its results once it has returned

vars ==
    << nodes, evaluator, cache, desiredSig, inflight, pending, pricingTick,
       nextId, lastCall, started, superseded, evals, touched, pure >>

history == << started, superseded, evals, touched >>

\* WeakMap.get results: has is FALSE when the node has no entry.
NoEntry == [has |-> FALSE, sig |-> "", label |-> ""]

NoSig == [has |-> FALSE, sig |-> ""]

NoInflight == [has |-> FALSE, sig |-> "", promise |-> 0]

NoCall ==
    [node |-> "", sig |-> "", path |-> "none", ret |-> "", threw |-> FALSE,
     invoked |-> FALSE]

\* No call of a pure function is under way.
NoPure == [op |-> "none", arg |-> << >>, out |-> << >>]

\* getRuleForNode: COMPILED_LOCAL_RULES[nodeName], has is FALSE for undefined.
getRuleForNode(node) ==
    IF node.type \in DOMAIN COMPILED_LOCAL_RULES
    THEN [has |-> TRUE, rule |-> COMPILED_LOCAL_RULES[node.type]]
    ELSE [has |-> FALSE, rule |-> compileRule(LOCAL_PRICING_RULES["TripoRetargetNode"], FALSE)]

\* The contexts evaluate() can be called with, by rule.
EvalInputs(graph) ==
    {<< nd.type, buildJsonataContext(nd, COMPILED_LOCAL_RULES[nd.type]) >> :
        nd \in {x \in UNION {StatesOf(graph[n]) : n \in Nodes} :
                  /\ x.api_node
                  /\ x.type \in RuleTypes
                  /\ COMPILED_LOCAL_RULES[x.type]._compiled}}

\* evaluate(ctx) returns a promise that resolves with the expression's
\* value, returns one that rejects, or throws before returning.
EvalModes == {"resolve", "reject", "throw"}

\* The state after useNodePricing() is set up, for a graph among graphs, an
\* evaluator with the given modes and a pure call among calls.
InitWith(graphs, modes, calls) ==
    /\ nodes \in graphs
    /\ evaluator \in [EvalInputs(nodes) -> modes]
    /\ pure \in calls
    /\ cache = [n \in Nodes |-> NoEntry]
    /\ desiredSig = [n \in Nodes |-> NoSig]
    /\ inflight = [n \in Nodes |-> NoInflight]
    /\ pending = {}
    /\ pricingTick = 0
    /\ nextId = 0
    /\ lastCall = NoCall
    /\ started = 0
    /\ superseded = {}
    /\ evals = [n \in Nodes |-> 0]
    /\ touched = {}

Init == InitWith(PricedGraphs, EvalModes, {NoPure})

InitMixed == InitWith(MixedGraphs, EvalModes, {NoPure})

InitConstant == InitWith(ConstantGraphs, EvalModes, {NoPure})

\* Mutant of AlreadyRunning: the coalescing check is lost.
AlreadyRunning_NoCoalesce(n, sig) == FALSE

\* running && running.sig === sig
AlreadyRunning(n, sig) == inflight[n].has /\ inflight[n].sig = sig

\* Mutant of IsDesired: the stale-result check is lost.
IsDesired_NoStaleCheck(n, sig) == TRUE

\* Mutant of IsDesired: only the presence of a desired signature is checked.
IsDesired_AnyDesired(n, sig) == desiredSig[n].has

\* desiredSig.get(node) === sig
IsDesired(n, sig) == desiredSig[n].has /\ desiredSig[n].sig = sig

\* Mutant of IsCurrentInflight: the comparison of the signatures is
\* inverted.
IsCurrentInflight_OtherSig(n, sig) == inflight[n].has /\ inflight[n].sig # sig

\* Mutant of IsCurrentInflight: the signature is not compared.
IsCurrentInflight_AnySig(n, sig) == inflight[n].has

\* Mutant of IsCurrentInflight: the in-flight entry is never dropped.
IsCurrentInflight_Never(n, sig) == FALSE

\* cur && cur.sig === sig in the .finally callback
IsCurrentInflight(n, sig) == inflight[n].has /\ inflight[n].sig = sig

\* Mutant of IsCacheHit: the cache entry is never used.
IsCacheHit_Never(n, sig) == FALSE

\* cached && cached.sig === sig
IsCacheHit(n, sig) == cache[n].has /\ cache[n].sig = sig

\* Mutant of CacheSet: the entry is written with the empty label.
CacheSet_NoLabel(n, sig, label) ==
    [cache EXCEPT ![n] = [has |-> TRUE, sig |-> sig, label |-> ""]]

\* Mutant of CacheSet: the entry is not written.
CacheSet_Skipped(n, sig, label) == cache

\* Mutant of CacheSet: one entry is shared by all nodes.
CacheSet_Shared(n, sig, label) ==
    [m \in Nodes |-> [has |-> TRUE, sig |-> sig, label |-> label]]

\* cache.set(node, { sig, label })
CacheSet(n, sig, label) ==
    [cache EXCEPT ![n] = [has |-> TRUE, sig |-> sig, label |-> label]]

\* Mutant of InflightSet: a record that exists is kept.
InflightSet_KeepExisting(n, sig, promise) ==
    IF inflight[n].has THEN inflight
    ELSE [inflight EXCEPT ![n] = [has |-> TRUE, sig |-> sig, promise |-> promise]]

\* inflight.set(node, { sig, promise })
InflightSet(n, sig, promise) ==
    [inflight EXCEPT ![n] = [has |-> TRUE, sig |-> sig, promise |-> promise]]

\* cached?.label ?? ''
LastKnownLabel(n) == IF cache[n].has THEN cache[n].label ELSE ""

\* scheduleEvaluation(node, rule, ctx, sig), called by a getNodeDisplayPrice
\* that returns ret when the call does not throw.
scheduleEvaluation(n, rule, ctx, sig, ret) ==
    LET call == [node |-> n, sig |-> sig, path |-> "coalesced", ret |-> ret,
                 threw |-> FALSE, invoked |-> FALSE]
    IN
    /\ desiredSig' = [desiredSig EXCEPT ![n] = [has |-> TRUE, sig |-> sig]]
    /\ touched' = touched
    /\ IF AlreadyRunning(n, sig)
       THEN /\ lastCall' = call
            /\ UNCHANGED << inflight, pending, nextId, started, evals >>
       ELSE IF ~rule._compiled
       THEN /\ lastCall' = [call EXCEPT !.path = "disabled"]
            /\ UNCHANGED << inflight, pending, nextId, started, evals >>
       ELSE /\ nextId < MaxEvals
            /\ nextId' = nextId + 1
            /\ evals' = [evals EXCEPT ![n] = @ + 1]
            /\ IF evaluator[<< nodes[n].type, ctx >>] = "throw"
               THEN \* evaluate() throws: the exception leaves
                    \* scheduleEvaluation and getNodeDisplayPrice
                    /\ lastCall' = [call EXCEPT !.path = "threw", !.ret = "",
                                                !.threw = TRUE, !.invoked = TRUE]
                    /\ UNCHANGED << inflight, pending, started >>
               ELSE /\ started' = started + 1
                    /\ pending' = pending \cup
                          {[id |-> nextId + 1, node |-> n, type |-> nodes[n].type,
                            sig |-> sig, ctx |-> ctx, phase |-> "running"]}
                    /\ inflight' = InflightSet(n, sig, nextId + 1)
                    /\ lastCall' = [call EXCEPT !.path = "started",
                                                !.invoked = TRUE]

\* Mutant of HasBadge: a rule that failed to compile is not skipped.
HasBadge_CompiledUnchecked(node, found) ==
    node.api_node /\ found.has /\ found.rule.engine = "jsonata"

\* The early returns of getNodeDisplayPrice: the node is an api node, it has
\* a rule, of the jsonata engine, that compiled.
HasBadge(node, found) ==
    /\ node.api_node
    /\ found.has
    /\ found.rule.engine = "jsonata"
    /\ found.rule._compiled

\* getNodeDisplayPrice(node)
getNodeDisplayPrice(n) ==
    LET node == nodes[n]
        found == getRuleForNode(node)
        rule == found.rule
        ctx == buildJsonataContext(node, rule)
        sig == buildSignature(ctx, rule)
        none == [node |-> n, sig |-> "", path |-> "norule", ret |-> "",
                 threw |-> FALSE, invoked |-> FALSE]
    IN
    /\ UNCHANGED << nodes, evaluator, cache, pricingTick, pure >>
    /\ IF ~HasBadge(node, found)
       THEN /\ lastCall' = none
            /\ UNCHANGED << desiredSig, inflight, pending, nextId, history >>
       ELSE /\ superseded' = superseded \cup
                  {p.id : p \in {q \in pending : /\ q.node = n
                                                 /\ q.sig # sig
                                                 /\ q.phase = "running"}}
            /\ IF IsCacheHit(n, sig)
               THEN /\ lastCall' = [none EXCEPT !.sig = sig, !.path = "hit",
                                                !.ret = cache[n].label]
                    /\ UNCHANGED << desiredSig, inflight, pending, nextId,
                                    started, evals, touched >>
               ELSE scheduleEvaluation(n, rule, ctx, sig, LastKnownLabel(n))

\* The label of an evaluation of a rule on a context when it completes:
\* formatPricingResult(res, rule.result_defaults ?? {}) of a resolved
\* promise, '' of a rejected one.
LabelOf(type, ctx) ==
    IF evaluator[<< type, ctx >>] = "resolve"
    THEN formatPricingResult(Expr(type, ctx),
                             COMPILED_LOCAL_RULES[type].result_defaults)
    ELSE ""

\* The .then and .catch callbacks of an evaluation's promise: the result
\* is formatted and cached, a rejection is cached as the empty label, both
\* only while the signature is still the desired one.
Settle(p) ==
    LET n == p.node
        label == LabelOf(p.type, p.ctx)
    IN
    /\ p \in pending
    /\ p.phase = "running"
    /\ cache' = IF IsDesired(n, p.sig)
                THEN CacheSet(n, p.sig, label)
                ELSE cache
    /\ pending' = (pending \ {p}) \cup
          {[p EXCEPT !.phase = IF IsDesired(n, p.sig) THEN "accepted" ELSE "discarded"]}
    /\ lastCall' = NoCall
    /\ UNCHANGED << nodes, evaluator, desiredSig, inflight, pricingTick, nextId,
                    history, pure >>

\* Mutant of BumpTick: the tick is bumped only when the cache was written.
BumpTick_OnlyAccepted(p) ==
    IF p.phase = "accepted" THEN pricingTick + 1 ELSE pricingTick

\* pricingTick.value++ in the .finally callback of evaluation p
BumpTick(p) == pricingTick + 1

\* The .finally callback: the in-flight entry is dropped when it is still
\* this evaluation's signature, and the tick is bumped.
Finally(p) ==
    LET n == p.node
    IN
    /\ p \in pending
    /\ p.phase \in {"accepted", "discarded"}
    /\ inflight' = IF IsCurrentInflight(n, p.sig)
                   THEN [inflight EXCEPT ![n] = NoInflight]
                   ELSE inflight
    /\ pricingTick' = BumpTick(p)
    /\ pending' = pending \ {p}
    /\ superseded' = superseded \ {p.id}
    /\ touched' = touched \ {p.id}
    /\ lastCall' = NoCall
    /\ UNCHANGED << nodes, evaluator, cache, desiredSig, nextId, started, evals,
                    pure >>

\* The host changes the value of a widget of a node (the node's type does
\* not change).
SetWidget(n, nd) ==
    /\ nd \in StatesOf(nodes[n])
    /\ nd # nodes[n]
    /\ nodes' = [nodes EXCEPT ![n] = nd]
    /\ lastCall' = NoCall
    /\ evals' = [evals EXCEPT ![n] = IF SigOf(nd) = SigOf(nodes[n]) THEN @ ELSE 0]
    /\ touched' = IF SigOf(nd) = SigOf(nodes[n]) THEN touched
                  ELSE touched \cup {p.id : p \in {q \in pending : q.node = n}}
    /\ UNCHANGED << evaluator, cache, desiredSig, inflight, pending, pricingTick,
                    nextId, started, superseded, pure >>

Next ==
    \/ \E n \in Nodes : getNodeDisplayPrice(n)
    \/ \E p \in pending : Settle(p)
    \/ \E p \in pending : Finally(p)
    \/ \E n \in Nodes : \E nd \in NodeStates(n) : SetWidget(n, nd)

Spec == Init /\ [][Next]_vars

\* The engine with an evaluator that never throws at the invocation (every
\* failure is a rejected promise, as with an async evaluate function).
SpecAsync ==
    InitWith(PricedGraphs, EvalModes \ {"throw"}, {NoPure}) /\ [][Next]_vars

\* The engine on the graphs with nodes that get no badge, and with a node
\* that has an undeclared widget and a declared input.
SpecMixed == InitMixed /\ [][Next]_vars

\* ------------------------------------------------------------------------
\* Calls of the pure functions
\* ------------------------------------------------------------------------
\* The raw values of the declared width widget of the calls.
RawValues ==
    {Null, Str(""), Num(Scale), Str("1"), Bool(TRUE), Str("true"),
     Str("a|w:height=b")}

\* A Flux2ProImageNode as buildJsonataContext reads it: the declared
\* widgets width and height and input images, and the undeclared widget
\* prompt and input mask.
SigNode(width, height, images, prompt, mask) ==
    [type |-> "Flux2ProImageNode", api_node |-> TRUE,
     widgets |-> << [name |-> "prompt", value |-> prompt],
                    [name |-> "width", value |-> width],
                    [name |-> "height", value |-> height] >>,
     inputs |-> << [name |-> "images", link |-> images],
                   [name |-> "mask", link |-> mask] >>]

SigNodes ==
    {SigNode(w, h, l, p, m) :
        w \in RawValues, h \in {Num(1024 * Scale), Str("b")},
        l \in {Null, Undefined, Num(7 * Scale)},
        p \in PromptValues, m \in LinkValues}

\* The raw value of a widget and the connected flag of an input of a node.
RawOf(nd, name) ==
    LET at == {k \in 1..Len(nd.widgets) : nd.widgets[k].name = name}
    IN  IF at = {} THEN Undefined
        ELSE nd.widgets[CHOOSE k \in at : \A j \in at : k <= j].value

ConnectedOf(nd, name) ==
    \E k \in 1..Len(nd.inputs) :
        /\ nd.inputs[k].name = name
        /\ \A j \in 1..(k - 1) : nd.inputs[j].name # name
        /\ nd.inputs[k].link \notin {Null, Undefined}

\* The declared widgets whose raw value, and the declared inputs whose
\* connected flag, differ between two nodes.
DeclaredDiff(a, b, rule) ==
    {<< "w", name >> : name \in {x \in Range(rule.widgets) : RawOf(a, x) # RawOf(b, x)}}
    \cup
    {<< "i", name >> : name \in {x \in Range(rule.inputs) :
                                   ConnectedOf(a, x) # ConnectedOf(b, x)}}

\* buildSignature on two nodes that differ in one declared dependency at
\* most, and in any undeclared widget or input.
SigCalls ==
    {[op |-> "signature", arg |-> << ab[1], ab[2] >>, out |-> << >>] :
        ab \in {x \in SigNodes \X SigNodes :
                  Cardinality(DeclaredDiff(x[1], x[2],
                      COMPILED_LOCAL_RULES["Flux2ProImageNode"])) <= 1}}

\* The values of a numeric field of a result.
NumericValues ==
    {Usd(5000), Str("0.04"), NonFinite("NaN"), NonFinite("Infinity"),
     Str("abc"), Null, Undefined, Bool(TRUE)}

\* The format objects of the calls: every field present or absent.
FormatsWith(suffix, note, separator) ==
    {[t |-> "object", suffix |-> s, note |-> n, approximate |-> a,
      separator |-> p] :
        s \in {Undefined, suffix}, n \in {Undefined, note},
        a \in {Undefined, Bool(TRUE), Bool(FALSE)}, p \in {Undefined, separator}}

ResultFormats == FormatsWith(Str("/second"), Str("(beta)"), Str(" or "))

DefaultFormats == FormatsWith(Str(" per 1K tokens"), Str("(est.)"), Str(", "))

\* The arrays of length 0 to 2 of numeric field values.
UsdArrays ==
    {<< >>} \cup {<< x >> : x \in NumericValues}
            \cup {<< x, y >> : x \in NumericValues, y \in NumericValues}

\* The results of the calls with every numeric field value,
NumericResults ==
    {UsdResult(x, Undefined) : x \in NumericValues}
    \cup {RangeResult(x, y, Undefined) : x \in NumericValues, y \in NumericValues}
    \cup {ListResult(q, Undefined) : q \in UsdArrays}
    \cup {PObj(Str("list_usd"), Undefined, x, Undefined, Undefined, Undefined) :
             x \in {Usd(5000), Undefined}}

\* the well-formed results to which the formats are applied,
FiniteResults ==
    {UsdResult(Usd(5000), f) : f \in ResultFormats \cup {Undefined, Null}}
    \cup {RangeResult(Usd(5000), Usd(8000), f) : f \in ResultFormats \cup {Undefined, Null}}
    \cup {ListResult(<< Usd(5000), Usd(8000) >>, f) :
             f \in ResultFormats \cup {Undefined, Null}}

\* and the results that are no object or have no known type tag.
OtherResults ==
    {Undefined, Null, Str("usd"), Str(""), Num(Scale), Num(0), Bool(TRUE),
     NonFinite("NaN"), Arr(<< Usd(5000) >>)}
    \cup {PObj(ty, Str("Token-based"), Usd(5000), Usd(5000), Usd(8000), Undefined) :
             ty \in {Undefined, Null, Str("credits"), Str("USD"), Str("range"),
                     Str(""), Num(Scale), Bool(TRUE)}}
    \cup {TextResult(x) : x \in {Str("Token-based"), Undefined, Null}}

\* The results of the examples of each shape: a usd amount with and
\* without a note, ranges whose amounts are equal, equal after formatting
\* only, and different, and lists of one to three amounts.
ShapeFormats ==
    {Undefined, [NoFormat EXCEPT !.note = Str("")],
     [NoFormat EXCEPT !.suffix = Str(" per 1K tokens")],
     [NoFormat EXCEPT !.separator = Str(" or "), !.approximate = Bool(TRUE)]}

ShapeResults ==
    {UsdResult(x, f) : x \in {Usd(4000), Str("0.04"), Num(0)}, f \in ShapeFormats}
    \cup {RangeResult(x, y, f) :
             x \in {Usd(23000), Usd(23100)}, y \in {Usd(23000), Usd(23100), Usd(50000)},
             f \in ShapeFormats}
    \cup {ListResult(q, f) :
             q \in {<< Usd(30), Usd(250) >>, << Usd(250), Usd(30) >>,
                    << Usd(5000) >>, << Usd(8000), Usd(30), Usd(5000) >>,
                    << Usd(5000), Usd(5000) >>},
             f \in ShapeFormats}

FormatCalls ==
    {[op |-> "format", arg |-> << r, d >>, out |-> << >>] :
        r \in ShapeResults,
        d \in {NoFormat, LOCAL_PRICING_RULES["GeminiNode"].result_defaults}}
    \cup
    {[op |-> "format", arg |-> << r, d >>, out |-> << >>] :
        r \in NumericResults \cup OtherResults,
        d \in {NoFormat, LOCAL_PRICING_RULES["GeminiNode"].result_defaults}}
    \cup
    {[op |-> "format", arg |-> << r, d >>, out |-> << >>] :
        r \in FiniteResults, d \in DefaultFormats}

\* The widget and input arrays of the nodes of the calls of
\* buildJsonataContext: empty, or with some of the names the rules declare
\* and a name no rule declares.
CtxWidgets ==
    {<< >>}
    \cup {<< [name |-> "prompt", value |-> Str("a cat")],
             [name |-> nm, value |-> v] >> :
            nm \in {"width", "height", "model", "image"},
            v \in {Num(1024 * Scale), Str("True"), Null}}
    \cup {<< [name |-> "width", value |-> Num(1024 * Scale)],
             [name |-> "height", value |-> Str(" 5 ")] >>}

CtxInputs ==
    {<< >>}
    \cup {<< [name |-> nm, link |-> l] >> :
            nm \in {"images", "mask", "image"},
            l \in {Null, Undefined, Num(0), Num(7 * Scale)}}
    \cup {<< [name |-> "mask", link |-> Num(7 * Scale)],
             [name |-> "images", link |-> Num(0)] >>}

\* buildJsonataContext on these nodes with each rule of the table.
ContextCalls ==
    {[op |-> "context",
      arg |-> << [type |-> k, api_node |-> TRUE, widgets |-> ws, inputs |-> is], k >>,
      out |-> << >>] :
        k \in RuleTypes, ws \in CtxWidgets, is \in CtxInputs}

\* buildJsonataContext(node, rule)
Context ==
    /\ pure.op = "context"
    /\ pure.out = << >>
    /\ pure' = [pure EXCEPT !.out =
          << buildJsonataContext(pure.arg[1], LOCAL_PRICING_RULES[pure.arg[2]]) >>]
    /\ UNCHANGED << nodes, evaluator, cache, desiredSig, inflight, pending,
                    pricingTick, nextId, lastCall, started, superseded, evals,
                    touched >>

\* normalizeWidgetValue on raw widget values of every type.
NormalizeCalls ==
    {[op |-> "normalize", arg |-> << raw >>, out |-> << >>] :
        raw \in {Undefined, Null, Str(""), Str(" "), Str("5"), Str(" 5 "),
                 Str("0.04"), Str("Infinity"), Str("true"), Str("false"),
                 Str("TRUE"), Str("True"), Str("False"), Str(" TRUE "),
                 Str("Gemini-2.5-Flash"), Num(Scale), Num(0), NonFinite("NaN"),
                 NonFinite("Infinity"), Bool(TRUE), Bool(FALSE), Obj("{}")}}

\* normalizeWidgetValue(raw)
Normalize ==
    /\ pure.op = "normalize"
    /\ pure.out = << >>
    /\ pure' = [pure EXCEPT !.out = << normalizeWidgetValue(pure.arg[1]) >>]
    /\ UNCHANGED << nodes, evaluator, cache, desiredSig, inflight, pending,
                    pricingTick, nextId, lastCall, started, superseded, evals,
                    touched >>

\* getRelevantWidgetNames on the types of the table and on other names.
NamesCalls ==
    {[op |-> "names", arg |-> << t >>, out |-> << >>] :
        t \in RuleTypes \cup ObjectPrototypeKeys \cup {"UnpricedNode", ""}}

\* getRelevantWidgetNames(nodeType)
RelevantNames ==
    /\ pure.op = "names"
    /\ pure.out = << >>
    /\ pure' = [pure EXCEPT !.out = << getRelevantWidgetNames(pure.arg[1]) >>]
    /\ UNCHANGED << nodes, evaluator, cache, desiredSig, inflight, pending,
                    pricingTick, nextId, lastCall, started, superseded, evals,
                    touched >>

\* buildSignature(buildJsonataContext(node, rule), rule) of the two nodes.
Sign ==
    LET rule == COMPILED_LOCAL_RULES["Flux2ProImageNode"]
    IN
    /\ pure.op = "signature"
    /\ pure.out = << >>
    /\ pure' = [pure EXCEPT !.out =
          << buildSignature(buildJsonataContext(pure.arg[1], rule), rule),
             buildSignature(buildJsonataContext(pure.arg[2], rule), rule) >>]
    /\ UNCHANGED << nodes, evaluator, cache, desiredSig, inflight, pending,
                    pricingTick, nextId, lastCall, started, superseded, evals,
                    touched >>

\* formatPricingResult(result, defaults)
Format ==
    /\ pure.op = "format"
    /\ pure.out = << >>
    /\ pure' = [pure EXCEPT !.out =
          << formatPricingResult(pure.arg[1], pure.arg[2]) >>]
    /\ UNCHANGED << nodes, evaluator, cache, desiredSig, inflight, pending,
                    pricingTick, nextId, lastCall, started, superseded, evals,
                    touched >>

\* A graph of two nodes that get no badge: the engine has nothing to do.
IdleGraphs ==
    {[n \in Nodes |-> u] : u \in {x \in UnpricedNodes : x.type = "UnpricedNode"}}

InitPure ==
    InitWith(IdleGraphs, {"resolve"},
             SigCalls \cup FormatCalls \cup NamesCalls \cup NormalizeCalls
                 \cup ContextCalls)

NextPure == Sign \/ Format \/ RelevantNames \/ Normalize \/ Context

\* The engine on a graph whose priced node has a rule that declares no
\* widget and no input.
SpecConstant == InitConstant /\ [][Next]_vars

\* One call of a pure function on arguments drawn from the sets above.
SpecPure == InitPure /\ [][NextPure]_vars

\* The runs of the engine on the mixed graphs, and the calls of
\* buildSignature alone.
InitSurface ==
    \/ InitMixed
    \/ InitWith(IdleGraphs, {"resolve"}, SigCalls)

NextSurface == Next \/ Sign

SpecSurface == InitSurface /\ [][NextSurface]_vars

TypeOK ==
    /\ pricingTick \in 0..MaxEvals
    /\ nextId \in 0..MaxEvals
    /\ \A n \in Nodes : nodes[n] \in NodeStates(n)

\* ------------------------------------------------------------------------
\* Properties
\* ------------------------------------------------------------------------
\* The step runs the .then/.catch callback of the running evaluation p.
Settles(p) == p \in pending /\ p.phase = "running" /\ p \notin pending'

\* The step runs the .then/.catch callback of p and it writes the cache.
Writes(p) == Settles(p) /\ [p EXCEPT !.phase = "accepted"] \in pending'

\* The step runs the .finally callback of p.
Finishes(p) == p \in pending /\ p.phase # "running" /\ pending' = pending \ {p}

\* The last step was a getNodeDisplayPrice call that reached the cache lookup.
Queried == lastCall.path \in {"hit", "coalesced", "started", "threw"}

\* The last step was a getNodeDisplayPrice call that missed the cache.
Missed == lastCall.path \in {"coalesced", "started", "threw"}

\* C1 as stated: once a later query of the node has computed another
\* signature than S1 while the evaluation for S1 was running, the completion
\* of that evaluation writes no cache entry.
C1_StaleDiscard_AsStated ==
    [][\A p \in pending :
         (Settles(p) /\ p.id \in superseded) => cache'[p.node] = cache[p.node]]_vars

\* C1 amended: an evaluation for S1 that completes while the node's desired
\* signature is not S1 writes no cache entry, whatever its outcome: its
\* callbacks leave the cache and the desired signatures as they were, so a
\* later query returns what it would have returned without that completion.
C1_StaleDiscard ==
    [][\A p \in pending :
         /\ (Settles(p) /\ desiredSig[p.node] # [has |-> TRUE, sig |-> p.sig])
               => /\ cache' = cache
                  /\ desiredSig' = desiredSig
                  /\ inflight' = inflight
                  /\ [p EXCEPT !.phase = "discarded"] \in pending'
         /\ (Finishes(p) /\ p.phase = "discarded")
               => cache' = cache /\ desiredSig' = desiredSig]_vars

\* Witness of C1: an evaluation that a later query superseded has completed
\* and its outcome was discarded.
C1_Witness ==
    \E p \in pending : p.phase = "discarded" /\ p.id \in superseded

\* C2 as stated: a query for signature S made while an evaluation for S that
\* an earlier query of the node started is still running starts no second
\* evaluation.
C2_Coalescing_AsStated ==
    [][nextId' # nextId =>
         ~\E p \in pending : /\ p.node = lastCall'.node
                              /\ p.sig = lastCall'.sig
                              /\ p.phase = "running"]_vars

\* C2 amended: a query for signature S made while the node's in-flight record
\* has signature S invokes the evaluator no second time.
C2_Coalescing ==
    [][nextId' # nextId =>
         ~(/\ inflight[lastCall'.node].has
           /\ inflight[lastCall'.node].sig = lastCall'.sig)]_vars

\* Witness of C2: a query found the in-flight record of its signature and
\* returned without invoking the evaluator.
C2_Witness ==
    /\ lastCall.path = "coalesced"
    /\ \E p \in pending : /\ p.node = lastCall.node
                           /\ p.sig = lastCall.sig
                           /\ p.phase = "running"

\* C3: every write of a cache entry {S, label}, on success and on failure,
\* happens while the node's desired signature is S, and the cache changes by
\* such writes only.
C3_NoStaleOverwrite ==
    [][/\ \A p \in pending :
            Writes(p) => /\ desiredSig[p.node] = [has |-> TRUE, sig |-> p.sig]
                         /\ desiredSig'[p.node] = desiredSig[p.node]
                         /\ cache'[p.node].has
                         /\ cache'[p.node].sig = p.sig
       /\ \A n \in Nodes :
            cache'[n] # cache[n] => \E p \in pending : p.node = n /\ Writes(p)]_vars

\* Witness of C3: a failed evaluation and a successful one have both written
\* their cache entry.
C3_Witness ==
    /\ \E p \in pending : /\ p.phase = "accepted"
                           /\ evaluator[<< p.type, p.ctx >>] = "reject"
    /\ \E p \in pending : /\ p.phase = "accepted"
                           /\ evaluator[<< p.type, p.ctx >>] = "resolve"

\* C4: after every query of a node with a compiled rule, on the cache-hit
\* path as on the cache-miss path, the node's desired signature is the
\* signature the query computed.
C4_DesiredIsLastQuery ==
    Queried => desiredSig[lastCall.node] = [has |-> TRUE, sig |-> lastCall.sig]

\* C5: a query that misses the cache returns the label of the node's cache
\* entry, or the empty string when there is none, and leaves the cache as it
\* was.
C5_MissReturnsLastKnown ==
    Missed => /\ ~lastCall.threw
              /\ lastCall.ret = LastKnownLabel(lastCall.node)

\* Every evaluation of the evaluator fails.
AlwaysFails == \A k \in DOMAIN evaluator : evaluator[k] # "resolve"

\* C6: with an evaluator whose every evaluation fails, every query returns
\* the empty string and none throws, and the evaluator is invoked at most
\* once for a node while the node's signature stays the same.
C6_FailureContainment ==
    AlwaysFails =>
        /\ lastCall.path # "none" => (~lastCall.threw /\ lastCall.ret = "")
        /\ \A n \in Nodes : evals[n] <= 1

\* C7: no failure of the evaluator, thrown at the invocation or delivered as
\* a rejection, reaches the caller: getNodeDisplayPrice returns a string.
C7_NoFailureEscapes == ~lastCall.threw

\* C8: of two consecutive queries of the same node with nothing in between,
\* both return the same label and at most one invokes the evaluator.
C8_Idempotence ==
    [][(/\ lastCall.path # "none"
        /\ lastCall'.path # "none"
        /\ lastCall'.node = lastCall.node)
         => /\ ~lastCall.threw
            /\ ~lastCall'.threw
            /\ lastCall'.ret = lastCall.ret
            /\ ~(lastCall.invoked /\ lastCall'.invoked)]_vars

\* C9: once all of a node's evaluations have completed, in whatever order,
\* the signature of the node's cache entry is the node's desired signature.
C9_OrderIndependence ==
    \A n \in Nodes :
        (desiredSig[n].has /\ ~\E p \in pending : p.node = n)
            => cache[n].has /\ cache[n].sig = desiredSig[n].sig

\* C10: the revision counter counts the completed evaluations (accepted,
\* failed or discarded alike): it equals the promise chains created minus
\* those not yet finished, never decreases, and changes only in the step
\* that finishes an evaluation, by exactly one.
C10_RevisionCounter ==
    /\ [](pricingTick = started - Cardinality(pending))
    /\ [][/\ pricingTick' >= pricingTick
          /\ pricingTick' # pricingTick
                => (pricingTick' = pricingTick + 1 /\ \E p \in pending : Finishes(p))
          /\ (\E p \in pending : Finishes(p)) => pricingTick' = pricingTick + 1]_vars

\* Witness of C10: two evaluations have finished and a further one, whose
\* outcome was discarded, is about to.
C10_Witness ==
    /\ pricingTick >= 2
    /\ \E p \in pending : p.phase = "discarded"

\* The running evaluations of node n whose result would be written to the
\* cache if they completed now.
Acceptable(n) ==
    {p \in pending : /\ p.node = n
                     /\ p.phase = "running"
                     /\ desiredSig[n].has
                     /\ p.sig = desiredSig[n].sig}

\* The pending evaluations of node n that its in-flight record identifies.
Tracked(n) ==
    {p \in pending : /\ p.node = n
                     /\ inflight[n].has
                     /\ p.id = inflight[n].promise
                     /\ p.sig = inflight[n].sig}

\* C11 as stated: in every reachable state at most one pending evaluation
\* of a node has the desired signature (can still be accepted).
C11_OneActive_AsStated == \A n \in Nodes : Cardinality(Acceptable(n)) <= 1

\* C11, amended: a node's in-flight record, when present, identifies exactly
\* one of the node's pending evaluations, and an evaluation that completes
\* while its signature is not the desired one is discarded; the evaluations
\* with the desired signature can be several.
C11_OneTracked ==
    /\ [](\A n \in Nodes : inflight[n].has => Cardinality(Tracked(n)) = 1)
    /\ [][\A p \in pending :
            (Settles(p) /\ ~(desiredSig[p.node].has /\ desiredSig[p.node].sig = p.sig))
                => /\ cache' = cache
                   /\ [p EXCEPT !.phase = "discarded"] \in pending']_vars

\* Two running evaluations of a node have the desired signature, one of them
\* the tracked one.
C11_Witness ==
    \E n \in Nodes : Cardinality(Acceptable(n)) = 2 /\ Cardinality(Tracked(n)) = 1

\* C12: a node has one in-flight record at most, and the query that starts
\* an evaluation for signature S leaves the node's record with signature S
\* and the new promise, in place of the record of another signature whose
\* evaluation stays pending.
C12_InflightReplaced ==
    [][lastCall'.path = "started" =>
          LET n == lastCall'.node
          IN  /\ DOMAIN inflight' = Nodes
              /\ inflight'[n] = [has |-> TRUE, sig |-> lastCall'.sig,
                                 promise |-> nextId']
              /\ \E p \in pending' \ pending :
                    p.id = nextId' /\ p.sig = lastCall'.sig /\ p.phase = "running"
              /\ inflight[n].has =>
                    /\ inflight[n].sig # lastCall'.sig
                    /\ pending \subseteq pending']_vars

\* A query has just started an evaluation while an evaluation of the node
\* for another signature is still running.
C12_Witness ==
    /\ lastCall.path = "started"
    /\ inflight[lastCall.node].sig = lastCall.sig
    /\ \E p \in pending : /\ p.node = lastCall.node
                          /\ p.phase = "running"
                          /\ p.sig # lastCall.sig

\* The label for the signature a node has now.
LabelNow(n) ==
    LabelOf(nodes[n].type,
            buildJsonataContext(nodes[n], COMPILED_LOCAL_RULES[nodes[n].type]))

\* C13: a query of a node whose cache entry is for another signature than
\* the node has now returns that entry's label at once; an evaluation that
\* completes for the signature the node has and that is the desired one
\* writes the entry for it; and a query that finds the entry for the node's
\* signature returns the label for that signature.
C13_NoFlicker ==
    /\ []((/\ lastCall.path \notin {"none", "norule"}
            /\ cache[lastCall.node].has
            /\ cache[lastCall.node].sig # lastCall.sig)
              => /\ ~lastCall.threw
                 /\ lastCall.ret = cache[lastCall.node].label)
    /\ [](lastCall.path = "hit" => lastCall.ret = LabelNow(lastCall.node))
    /\ [][\A p \in pending :
            (/\ Settles(p)
             /\ SigOf(nodes[p.node]) = p.sig
             /\ desiredSig[p.node].has /\ desiredSig[p.node].sig = p.sig)
                => cache'[p.node] = [has |-> TRUE, sig |-> p.sig,
                                     label |-> LabelNow(p.node)]]_vars

\* The node is not an api node, or its type has no rule, or its rule failed
\* to compile.
Unpriced(nd) ==
    \/ ~nd.api_node
    \/ nd.type \notin RuleTypes
    \/ ~Compiles(nd.type)

\* C14: a getNodeDisplayPrice call on a node that is not an api node, has no
\* rule, or has a rule that failed to compile returns '' without throwing,
\* invokes no evaluator, starts no evaluation and changes neither the cache,
\* the desired signatures, the in-flight records nor the revision counter.
C14_NoRuleNoWork ==
    [][(lastCall'.path # "none" /\ Unpriced(nodes[lastCall'.node])) =>
          /\ lastCall'.ret = ""
          /\ ~lastCall'.threw
          /\ ~lastCall'.invoked
          /\ UNCHANGED << cache, desiredSig, inflight, pricingTick, pending,
                          nextId, started >>]_vars

\* A node whose rule failed to compile has just been queried, while the
\* other node has an accepted label and an evaluation pending.
C14_Witness ==
    /\ lastCall.path = "norule"
    /\ nodes[lastCall.node].type = "MalformedRuleNode"
    /\ \E m \in Nodes : cache[m].has /\ inflight[m].has

\* The step leaves the cache entry, the desired signature and the in-flight
\* record of every node but n unchanged.
OthersUnchanged(n) ==
    \A m \in Nodes \ {n} : /\ cache'[m] = cache[m]
                            /\ desiredSig'[m] = desiredSig[m]
                            /\ inflight'[m] = inflight[m]

\* C15: a query of node X, and the .then/.catch and .finally callbacks of
\* an evaluation of node X, leave the cache entry, the desired signature and
\* the in-flight record of every other node unchanged.
C15_Independence ==
    [][/\ lastCall'.path # "none" => OthersUnchanged(lastCall'.node)
       /\ \A p \in pending :
             (Settles(p) \/ Finishes(p)) => OthersUnchanged(p.node)]_vars

\* Both nodes have an accepted label, not the same one, and one of them
\* has an evaluation in flight.
C15_Witness ==
    \E n \in Nodes : \E m \in Nodes \ {n} :
        /\ cache[n].has /\ cache[m].has /\ cache[n] # cache[m]
        /\ inflight[m].has /\ ~inflight[n].has

\* A call of buildSignature on two nodes has returned.
Signed == pure.op = "signature" /\ pure.out # << >>

\* The node has a cache entry for the signature it has now.
CacheValid(n) == cache[n].has /\ cache[n].sig = SigOf(nodes[n])

\* C16: two nodes that agree on the raw value of every declared widget and
\* on the connected flag of every declared input have the same signature,
\* whatever their undeclared widgets and inputs; a change of an undeclared
\* widget or input leaves a cache entry valid, and the query of a node with
\* a valid cache entry is a hit that invokes no evaluator.
C16_DeclaredSurfaceOnly ==
    /\ []((Signed /\ DeclaredDiff(pure.arg[1], pure.arg[2],
                        COMPILED_LOCAL_RULES["Flux2ProImageNode"]) = {})
              => pure.out[1] = pure.out[2])
    /\ [][\A n \in Nodes :
            (/\ nodes'[n] # nodes[n]
             /\ DeclaredDiff(nodes[n], nodes'[n],
                              COMPILED_LOCAL_RULES[nodes[n].type]) = {}
             /\ CacheValid(n))
                => cache'[n].has /\ cache'[n].sig = SigOf(nodes'[n])]_vars
    /\ [][\A n \in Nodes :
            (lastCall'.path # "none" /\ lastCall'.node = n /\ CacheValid(n))
                => /\ lastCall'.path = "hit"
                   /\ lastCall'.ret = cache[n].label
                   /\ ~lastCall'.invoked
                   /\ UNCHANGED << cache, desiredSig, inflight, pending, nextId >>]_vars

\* buildSignature has returned the same signature for two nodes that agree
\* on the declared widgets and input and differ in the undeclared prompt
\* widget and mask input.
C16_Witness ==
    /\ Signed
    /\ DeclaredDiff(pure.arg[1], pure.arg[2],
                     COMPILED_LOCAL_RULES["Flux2ProImageNode"]) = {}
    /\ RawOf(pure.arg[1], "prompt") # RawOf(pure.arg[2], "prompt")
    /\ ConnectedOf(pure.arg[1], "mask") # ConnectedOf(pure.arg[2], "mask")
    /\ pure.out[1] = pure.out[2]

TextOf(v) == IF v \in {Null, Undefined} THEN "" ELSE JsString(v)

Formatted == pure.op = "format" /\ pure.out # << >>

\* The value is a finite number, or a string that Number() reads as one.
Finite(v) ==
    \/ v.t = "number"
    \/ v.t = "string" /\ Trim(v.v) # "" /\ NumberOfString(Trim(v.v)).t = "number"

BuiltIn ==
    [suffix |-> Str("/Run"), note |-> Str(""), approximate |-> Bool(FALSE),
     separator |-> Str("/")]

\* The value of a format field in effect: the result's own, else the rule's
\* default, else the built-in one.
Effective(format, defaults, field) ==
    IF format.t = "object" /\ format[field] # Undefined THEN format[field]
    ELSE IF defaults[field] # Undefined THEN defaults[field]
    ELSE BuiltIn[field]

\* The label of a result with finite amounts under the fields in effect.
ExpectedLabel(r, defaults) ==
    LET eff(field) == Effective(r.format, defaults, field).v
        amount == IF r.type = Str("usd") THEN formatCreditsValue(r.usd)
                  ELSE IF r.type = Str("range_usd")
                  THEN formatCreditsValue(r.min_usd) \o "-"
                           \o formatCreditsValue(r.max_usd)
                  ELSE formatCreditsValue(r.usd.v[1]) \o eff("separator")
                           \o formatCreditsValue(r.usd.v[2])
    IN  (IF eff("approximate") = "true" THEN "~" ELSE "") \o amount
            \o " credits" \o eff("suffix")
            \o (IF eff("note") = "" THEN "" ELSE " " \o eff("note"))

\* C19: the label of a usd, range_usd or list_usd result uses, for each of
\* suffix, note, approximate and separator, the field of the result's own
\* format when present, else the field of the rule's defaults, else the
\* built-in default.
C19_FormatMerge ==
    (Formatted /\ pure.arg[1] \in FiniteResults)
        => pure.out[1] = ExpectedLabel(pure.arg[1], pure.arg[2])

\* formatPricingResult has rendered a list with the suffix of the result's
\* format, the note of the rule's defaults and the built-in separator.
C19_Witness ==
    /\ Formatted
    /\ pure.arg[1] \in FiniteResults
    /\ pure.arg[1].type = Str("list_usd")
    /\ pure.arg[1].format.t = "object"
    /\ pure.arg[1].format.suffix = Str("/second")
    /\ pure.arg[1].format.note = Undefined
    /\ pure.arg[2].suffix = Str(" per 1K tokens")
    /\ pure.arg[2].note = Str("(est.)")
    /\ pure.out[1] = "11/17 credits/second (est.)"

\* C20: formatPricingResult returns '' for a result that is no object or
\* whose type tag is none of text, usd, range_usd, list_usd.
C20_UnknownIsEmpty ==
    Formatted =>
        LET r == pure.arg[1]
        IN  (\/ r.t # "object"
             \/ r.type \notin {Str("text"), Str("usd"), Str("range_usd"),
                                Str("list_usd")})
                => pure.out[1] = ""

\* formatPricingResult has returned '' for an object without a type tag
\* that has the fields of every known shape.
C20_Witness ==
    /\ Formatted
    /\ pure.arg[1] = PObj(Undefined, Str("Token-based"), Usd(5000), Usd(5000),
                           Usd(8000), Undefined)
    /\ pure.out[1] = ""

\* The finite number a numeric field stands for.
NumberOf(v) == IF v.t = "number" THEN v ELSE NumberOfString(Trim(v.v))

\* The text around the amount of a label: the prefix "~" when approximate
\* is true, " credits", the suffix ("/Run" when none is given) and the
\* note, when there is one, after one space.
Around(amount, format, defaults) ==
    LET approximate == Effective(format, defaults, "approximate")
        suffix == Effective(format, defaults, "suffix")
        note == Effective(format, defaults, "note")
    IN  (IF approximate = Bool(TRUE) THEN "~" ELSE "") \o amount \o " credits"
            \o suffix.v \o (IF note.v = "" THEN "" ELSE " " \o note.v)

\* C21: a usd result with a finite amount renders as prefix, formatted
\* amount, " credits", suffix and note; {type: "usd", usd: 0.04} without
\* overrides renders as formatted(0.04) and " credits/Run".
C21_UsdLabel ==
    Formatted =>
        LET r == pure.arg[1]
        IN  /\ (r.t = "object" /\ r.type = Str("usd") /\ Finite(r.usd))
                  => pure.out[1] = Around(formatCreditsValue(NumberOf(r.usd)),
                                          r.format, pure.arg[2])
            /\ (r = UsdResult(Usd(4000), Undefined) /\ pure.arg[2] = NoFormat)
                  => pure.out[1] = formatCreditsValue(Usd(4000)) \o " credits/Run"

\* formatPricingResult has rendered {type: "usd", usd: 0.04} without
\* overrides.
C21_Witness ==
    /\ Formatted
    /\ pure.arg[1] = UsdResult(Usd(4000), Undefined)
    /\ pure.arg[2] = NoFormat
    /\ pure.out[1] = "8 credits/Run"

\* C22: a range_usd result renders its amount as the two formatted amounts
\* with a dash between them, and as one formatted amount exactly when the
\* two are equal after formatting.
C22_RangeLabel ==
    Formatted =>
        LET r == pure.arg[1]
        IN  (r.t = "object" /\ r.type = Str("range_usd")
                /\ Finite(r.min_usd) /\ Finite(r.max_usd))
              => LET min == formatCreditsValue(NumberOf(r.min_usd))
                     max == formatCreditsValue(NumberOf(r.max_usd))
                 IN  /\ min = max
                           => pure.out[1] = Around(min, r.format, pure.arg[2])
                     /\ min # max
                           => pure.out[1] = Around(min \o "-" \o max, r.format,
                                                   pure.arg[2])

\* formatPricingResult has rendered a range whose bounds differ and format
\* to the same amount.
C22_Witness ==
    /\ Formatted
    /\ pure.arg[1] = RangeResult(Usd(23000), Usd(23100), Undefined)
    /\ pure.arg[2] = NoFormat
    /\ pure.out[1] = "49 credits/Run"

\* The formatted amounts of a list in array order with sep between them.
RECURSIVE Amounts(_, _)
Amounts(items, sep) ==
    IF Len(items) = 1 THEN formatCreditsValue(NumberOf(items[1]))
    ELSE Amounts(SubSeq(items, 1, Len(items) - 1), sep) \o sep
             \o formatCreditsValue(NumberOf(items[Len(items)]))

\* C23: a list_usd result of finite amounts renders the formatted amounts
\* in array order joined by the separator ("/" when none is given), then
\* " credits" and the suffix; [0.0003, 0.0025] with the suffix
\* " per 1K tokens" renders as "<a>/<b> credits per 1K tokens".
C23_ListLabel ==
    Formatted =>
        LET r == pure.arg[1]
        IN  /\ (r.t = "object" /\ r.type = Str("list_usd") /\ r.usd.t = "array"
                    /\ Len(r.usd.v) > 0
                    /\ \A k \in 1..Len(r.usd.v) : Finite(r.usd.v[k]))
                  => pure.out[1] =
                       Around(Amounts(r.usd.v,
                                  Effective(r.format, pure.arg[2], "separator").v),
                              r.format, pure.arg[2])
            /\ (/\ r = ListResult(<< Usd(30), Usd(250) >>,
                                   [NoFormat EXCEPT !.suffix = Str(" per 1K tokens")])
                 /\ pure.arg[2] = NoFormat)
                  => pure.out[1] = formatCreditsValue(Usd(30)) \o "/"
                        \o formatCreditsValue(Usd(250)) \o " credits per 1K tokens"

\* formatPricingResult has rendered a list of three different amounts with
\* the separator of its format.
C23_Witness ==
    /\ Formatted
    /\ pure.arg[1] = ListResult(<< Usd(8000), Usd(30), Usd(5000) >>,
                                [NoFormat EXCEPT !.separator = Str(" or "),
                                                 !.approximate = Bool(TRUE)])
    /\ pure.arg[2] = NoFormat
    /\ pure.out[1] = "~17 or 0 or 11 credits/Run"

\* A call of getRelevantWidgetNames has ended.
Named == pure.op = "names" /\ pure.out # << >>

\* q lists every name of all once, in the order of the first occurrences.
FirstOccurrences(q, all) ==
    LET first(x) == CHOOSE k \in 1..Len(all) :
                        all[k] = x /\ \A j \in 1..(k - 1) : all[j] # x
    IN  /\ Range(q) = Range(all)
        /\ \A i \in 1..Len(q) : \A j \in 1..Len(q) :
              i < j => q[i] # q[j] /\ first(q[i]) < first(q[j])

\* C24: getRelevantWidgetNames returns the declared widget names followed
\* by the declared input names, each once at its first occurrence, and the
\* empty list for a type without a rule.
C24_RelevantNames ==
    Named =>
        LET t == pure.arg[1]
            got == pure.out[1]
        IN  /\ ~got.threw
            /\ t \in RuleTypes
                  => FirstOccurrences(got.names, LOCAL_PRICING_RULES[t].widgets
                                                    \o LOCAL_PRICING_RULES[t].inputs)
            /\ t \notin RuleTypes => got.names = << >>

\* C24 on the type names that Object.prototype does not define.
C24_RelevantNames_OwnKeys == (Named /\ ~pure.out[1].threw) => C24_RelevantNames

\* A call of normalizeWidgetValue has returned.
Normalized == pure.op = "normalize" /\ pure.out # << >>

\* The texts of the calls with an upper-case letter in them.
HasUpperCase(s) ==
    s \in {"TRUE", "True", "False", " TRUE ", "Gemini-2.5-Flash", "NaN",
           "Infinity", "[object Object]"}

\* The number and text fields of C25: the number field is null for
\* booleans and object-shaped values and a finite number or null for
\* numbers and strings; the text field is lower-case, and empty for null
\* and undefined.
NumberAndText(raw, r) ==
    /\ raw.t \in {"boolean", "object"} => r.n = Null
    /\ raw.t \in {"number", "nonfinite", "string"} => (r.n = Null \/ r.n.t = "number")
    /\ ~HasUpperCase(r.s)
    /\ raw \in {Null, Undefined} => r.s = ""

\* The boolean field of C25, for strings that are "true" or "false" in the
\* texts given: the value itself for a boolean, true or false for such a
\* string, null otherwise.
BooleanField(raw, r, trueTexts, falseTexts) ==
    r.b = IF raw.t = "boolean" THEN raw
          ELSE IF raw.t = "string" /\ raw.v \in trueTexts THEN Bool(TRUE)
          ELSE IF raw.t = "string" /\ raw.v \in falseTexts THEN Bool(FALSE)
          ELSE Null

Contexted == pure.op = "context" /\ pure.out # << >>

\* The node has a widget, or an input slot, of that name.
HasWidget(nd, name) == \E k \in 1..Len(nd.widgets) : nd.widgets[k].name = name

HasSlot(nd, name) == \E k \in 1..Len(nd.inputs) : nd.inputs[k].name = name

\* C26: the context has one entry per declared widget name and one per
\* declared input name and nothing else; a declared widget the node does
\* not have is normalized as undefined (empty text, null number, null
\* boolean), a widget it has as its value; an input entry is its connected
\* flag alone, false when the slot is missing or has no link.
C26_Context ==
    Contexted =>
        LET nd   == pure.arg[1]
            rule == LOCAL_PRICING_RULES[pure.arg[2]]
            ctx  == pure.out[1]
        IN  /\ DOMAIN ctx = {"w", "i"}
            /\ DOMAIN ctx.w = {rule.widgets[k] : k \in 1..Len(rule.widgets)}
            /\ DOMAIN ctx.i = {rule.inputs[k] : k \in 1..Len(rule.inputs)}
            /\ \A name \in DOMAIN ctx.w :
                  IF HasWidget(nd, name)
                  THEN ctx.w[name].raw = RawOf(nd, name)
                  ELSE ctx.w[name] = [raw |-> Undefined, s |-> "", n |-> Null,
                                      b |-> Null]
            /\ \A name \in DOMAIN ctx.i :
                  /\ DOMAIN ctx.i[name] = {"connected"}
                  /\ ctx.i[name].connected \in BOOLEAN
                  /\ ~HasSlot(nd, name) => ~ctx.i[name].connected
                  /\ ctx.i[name].connected = ConnectedOf(nd, name)

\* A context was built for a node that lacks a declared widget and a
\* declared input of the rule and has another declared widget.
C26_Witness ==
    /\ Contexted
    /\ pure.arg[2] = "Flux2ProImageNode"
    /\ ~HasWidget(pure.arg[1], "width")
    /\ HasWidget(pure.arg[1], "height")
    /\ ~HasSlot(pure.arg[1], "images")
    /\ HasSlot(pure.arg[1], "mask")
    /\ pure.out[1].w["width"].raw = Undefined
    /\ pure.out[1].w["height"].raw = Str("True")
    /\ ~pure.out[1].i["images"].connected

\* The step is a getNodeDisplayPrice call of node n.
Queries(n) == lastCall'.path # "none" /\ lastCall'.node = n

\* C27: a query of a node whose cache entry has the signature of its
\* inputs returns that entry's label, invokes no evaluator and starts no
\* evaluation, and leaves the cache, the in-flight records and the tick
\* unchanged, whatever evaluation of the node is in flight.
C27_HitDoesNoWork ==
    [][\A n \in Nodes :
         (Queries(n) /\ cache[n].has /\ cache[n].sig = SigOf(nodes[n])) =>
            /\ lastCall'.path = "hit"
            /\ lastCall'.ret = cache[n].label
            /\ ~lastCall'.threw
            /\ ~lastCall'.invoked
            /\ pending' = pending
            /\ nextId' = nextId
            /\ started' = started
            /\ cache' = cache
            /\ inflight' = inflight
            /\ pricingTick' = pricingTick]_vars

\* A query was a cache hit while an evaluation of the node for another
\* signature was running and in flight.
C27_Witness ==
    /\ lastCall.path = "hit"
    /\ lastCall.ret # ""
    /\ inflight[lastCall.node].has
    /\ inflight[lastCall.node].sig # lastCall.sig
    /\ \E p \in pending : /\ p.node = lastCall.node
                           /\ p.phase = "running"
                           /\ p.id = inflight[lastCall.node].promise

\* The completion of evaluation p clears the in-flight record of its node
\* when the record has p's signature, and leaves it as it is otherwise;
\* the records of the other nodes stay.
ClearsOwnSignature(p) ==
    /\ inflight'[p.node] = IF inflight[p.node].has /\ inflight[p.node].sig = p.sig
                            THEN NoInflight
                            ELSE inflight[p.node]
    /\ \A m \in Nodes \ {p.node} : inflight'[m] = inflight[m]

\* C28: the completion clears the record only when the record has its
\* signature, so the completion of an evaluation never removes the record
\* that tracks another, newer evaluation of the node.
C28_FinallyClearsNewer ==
    [][\A p \in pending :
         Finishes(p) =>
            /\ ClearsOwnSignature(p)
            /\ (inflight[p.node].has /\ inflight[p.node].promise # p.id)
                  => inflight'[p.node] = inflight[p.node]]_vars

\* The comparison of C28 alone: the completion clears the record when and
\* only when the record has its signature, whichever evaluation the record
\* tracks; a record of another signature is left untouched.
C28_FinallyClearsOwn ==
    [][\A p \in pending :
         Finishes(p) =>
            /\ ClearsOwnSignature(p)
            /\ (inflight[p.node].has /\ inflight[p.node].sig # p.sig)
                  => inflight'[p.node] = inflight[p.node]
            /\ (inflight[p.node].has /\ inflight[p.node].sig = p.sig)
                  => ~inflight'[p.node].has]_vars

\* Two evaluations of one node were started and none threw; the first one
\* was discarded and has completed, and the in-flight record still tracks
\* the second one, which is running.
C28_Witness ==
    \E n \in Nodes :
        /\ pricingTick = 1
        /\ nextId = 2
        /\ started = 2
        /\ \A m \in Nodes \ {n} : ~desiredSig[m].has
        /\ ~cache[n].has
        /\ inflight[n].has
        /\ inflight[n].promise = 2
        /\ \E p \in pending : /\ pending = {p}
                               /\ p.id = 2
                               /\ p.node = n
                               /\ p.sig = inflight[n].sig
                               /\ p.phase = "running"

\* C29: the tick is incremented only by the completion of an evaluation,
\* by one, in the step that clears the in-flight record of the evaluation's
\* signature, and after the step that wrote the cache; so when an accepted
\* evaluation completes and the node's signature has not changed since it
\* was scheduled, the state the increment announces has the cache entry for
\* the node's signature with the evaluation's label and no in-flight record:
\* a query of the node is then a cache hit (C27).
C29_WriteBeforeTick ==
    [][/\ pricingTick' # pricingTick => \E p \in pending : Finishes(p)
       /\ \A p \in pending :
             Finishes(p) =>
                /\ pricingTick' = pricingTick + 1
                /\ cache' = cache
                /\ (inflight[p.node].has /\ inflight[p.node].sig = p.sig)
                      => ~inflight'[p.node].has
                /\ (p.phase = "accepted" /\ p.id \notin touched) =>
                      /\ cache'[p.node] =
                            [has |-> TRUE, sig |-> SigOf(nodes'[p.node]),
                             label |-> LabelOf(p.type, p.ctx)]
                      /\ p.sig = SigOf(nodes'[p.node])
                      /\ ~inflight'[p.node].has]_vars

\* The one evaluation that was started has completed and was accepted, the
\* node's signature has not changed since, and the query that followed the
\* increment was a cache hit that returned the label.
C29_Witness ==
    /\ pricingTick = 1
    /\ nextId = 1
    /\ started = 1
    /\ pending = {}
    /\ lastCall.path = "hit"
    /\ evals[lastCall.node] = 1
    /\ lastCall.ret = LabelNow(lastCall.node)
    /\ lastCall.ret # ""
    /\ ~inflight[lastCall.node].has

\* C30: in every reachable state, a node that has an in-flight record has
\* the record's signature as its desired signature.
C30_InflightIsDesired ==
    \A n \in Nodes :
        inflight[n].has =>
            /\ desiredSig[n].has
            /\ desiredSig[n].sig = inflight[n].sig

\* C31: in every reachable state, a node that has a desired signature and
\* no in-flight record has a cache entry of the desired signature.
C31_ClearedMeansCached ==
    \A n \in Nodes :
        (desiredSig[n].has /\ ~inflight[n].has) =>
            /\ cache[n].has
            /\ cache[n].sig = desiredSig[n].sig

\* The evaluations of node n for signature sig whose .finally callback has
\* not run yet.
Uncompleted(n, sig) == {p \in pending : p.node = n /\ p.sig = sig}

\* C32: in every reachable state, a node that has an in-flight record with
\* signature S has an evaluation started for S that has not completed yet.
C32_NoDanglingRecord ==
    \A n \in Nodes :
        inflight[n].has => Uncompleted(n, inflight[n].sig) # {}

\* An evaluation has completed, and the node it was for has an in-flight
\* record and, for the record's signature, one evaluation, which has
\* settled and whose .finally callback has not run yet.
C32_Witness ==
    \E n \in Nodes :
        /\ pricingTick >= 1
        /\ inflight[n].has
        /\ \A m \in Nodes \ {n} : ~desiredSig[m].has
        /\ \E p \in pending : /\ Uncompleted(n, inflight[n].sig) = {p}
                               /\ p.phase # "running"

\* The signatures node n can have.
SigsOf(n) == {SigOf(nd) : nd \in NodeStates(n)}

\* Every started evaluation eventually completes.
EveryEvaluationCompletes ==
    \A id \in 1..MaxEvals : []<>(\A p \in pending : p.id # id)

\* Node n is queried again after every increment of the tick.
RequeriedAfterTick(n) ==
    \A k \in 1..MaxEvals :
        [](pricingTick = k =>
             <>(pricingTick >= k /\ lastCall.node = n /\ lastCall.path # "none"))

\* A query of node n, when it was the last step, was a cache hit that
\* returned the label of an evaluation for the signature the node has.
QueryConverged(n) ==
    (lastCall.node = n /\ lastCall.path # "none") =>
        /\ lastCall.path = "hit"
        /\ lastCall.sig = SigOf(nodes[n])
        /\ lastCall.ret = LabelNow(n)

\* C33, where the run has converged: when the evaluator has been invoked
\* for the signature S the node has since its signature last changed, and
\* every evaluation started for the node has completed, a query of the node
\* is a cache hit that returns the label of an evaluation for S and starts
\* no evaluation.
C33_Convergence ==
    [][\A n \in Nodes :
         (/\ Queries(n)
          /\ evals[n] >= 1
          /\ \A p \in pending : p.node # n)
            => /\ lastCall'.path = "hit"
               /\ ~lastCall'.invoked
               /\ lastCall'.ret = LabelNow(n)
               /\ nextId' = nextId]_vars

\* C33 as a property of whole runs: when the signature of a node stays S
\* from some point on, every started evaluation eventually completes and
\* the node is queried again after every increment of the tick, then from
\* some point on every query of the node is a cache hit that returns the
\* label for S, and starts no evaluation.
C33_Convergence_Eventually ==
    \A n \in Nodes : \A S \in SigsOf(n) :
        (/\ <>[](SigOf(nodes[n]) = S)
         /\ EveryEvaluationCompletes
         /\ RequeriedAfterTick(n))
            => <>[]QueryConverged(n)

\* The outcome of an evaluation of a node state: the formatted result of the
\* rule's expression on the state's context, or '' when the evaluation
\* fails.
OutcomeOf(nd) ==
    LET ctx == buildJsonataContext(nd, LOCAL_PRICING_RULES[nd.type])
    IN  IF evaluator[<< nd.type, ctx >>] = "resolve"
        THEN formatPricingResult(Expr(nd.type, ctx),
                                 LOCAL_PRICING_RULES[nd.type].result_defaults)
        ELSE ""

\* The states of node n that have signature sig.
StatesWith(n, sig) == {nd \in StatesOf(nodes[n]) : SigOf(nd) = sig}

\* C34: a cache entry {S, label} of a node changes only by the write of a
\* completing evaluation that was started for that node with signature S,
\* and its label is the outcome of that evaluation; in every reachable
\* state the label of an entry is the outcome for a state of the node with
\* the entry's signature, and the label a cache hit returns is the outcome
\* for the signature the node has at that query.
C34_CacheCoherent ==
    /\ [][\A n \in Nodes :
             cache'[n] # cache[n] =>
                \E p \in pending :
                    /\ Writes(p)
                    /\ p.node = n
                    /\ p.type = nodes[n].type
                    /\ p.sig = buildSignature(p.ctx, LOCAL_PRICING_RULES[p.type])
                    /\ \E nd \in StatesWith(n, p.sig) :
                          /\ p.ctx = buildJsonataContext(nd, LOCAL_PRICING_RULES[nd.type])
                          /\ cache'[n] = [has |-> TRUE, sig |-> p.sig,
                                          label |-> OutcomeOf(nd)]]_vars
    /\ [](\A n \in Nodes :
            cache[n].has =>
                /\ StatesWith(n, cache[n].sig) # {}
                /\ \A nd \in StatesWith(n, cache[n].sig) :
                      cache[n].label = OutcomeOf(nd))
    /\ [](lastCall.path = "hit" =>
            /\ cache[lastCall.node].sig = SigOf(nodes[lastCall.node])
            /\ lastCall.ret = OutcomeOf(nodes[lastCall.node]))

\* Two evaluations have completed; a query was a cache hit on an entry
\* that a successful evaluation wrote, and the other node has the entry of
\* a failed evaluation.
C34_Witness ==
    /\ lastCall.path = "hit"
    /\ lastCall.ret # ""
    /\ pricingTick >= 2
    /\ \E m \in Nodes \ {lastCall.node} :
          /\ cache[m].has
          /\ cache[m].label = ""
          /\ evaluator[<< nodes[m].type,
                           buildJsonataContext(nodes[m],
                               LOCAL_PRICING_RULES[nodes[m].type]) >>] = "reject"

\* C35: once a query of a node has returned the label of the cache entry
\* for the node's signature S, no step that leaves the signature S changes
\* that entry, whatever evaluation completes in the step, so later queries
\* return the same label.
C35_LabelStable ==
    [][\A n \in Nodes :
         (/\ lastCall.path = "hit"
          /\ lastCall.node = n
          /\ cache[n].has
          /\ cache[n].sig = SigOf(nodes[n])
          /\ SigOf(nodes'[n]) = SigOf(nodes[n]))
            => cache'[n] = cache[n]]_vars

\* The stability of C35 where S is also the node's desired signature: no
\* step that leaves the signature S changes the entry or the desired
\* signature, and a query in such a state is a hit that returns the entry's
\* label.
C35_StableWhenDesired ==
    [][\A n \in Nodes :
         (/\ cache[n].has
          /\ cache[n].sig = SigOf(nodes[n])
          /\ desiredSig[n] = [has |-> TRUE, sig |-> cache[n].sig]
          /\ SigOf(nodes'[n]) = SigOf(nodes[n]))
            => /\ cache'[n] = cache[n]
               /\ desiredSig'[n] = desiredSig[n]
               /\ Queries(n) => (lastCall'.path = "hit"
                                   /\ lastCall'.ret = cache[n].label)]_vars

\* The rule of node n declares no widget and no input.
DeclaresNothing(n) ==
    /\ nodes[n].api_node
    /\ nodes[n].type \in RuleTypes
    /\ Compiles(nodes[n].type)
    /\ LOCAL_PRICING_RULES[nodes[n].type].widgets = << >>
    /\ LOCAL_PRICING_RULES[nodes[n].type].inputs = << >>

\* For a node whose rule declares nothing: every state the host can put the
\* node in has the same signature, and the evaluator is invoked once at
\* most, and once when the node has been queried.
InvokedOnce(n) ==
    DeclaresNothing(n) =>
        /\ \A nd \in StatesOf(nodes[n]) : SigOf(nd) = SigOf(nodes[n])
        /\ evals[n] <= 1
        /\ desiredSig[n].has => evals[n] = 1
        /\ (lastCall.node = n /\ lastCall.path # "none") => evals[n] = 1

\* A query of such a node when its evaluation has completed is a cache hit.
HitAfterCompletion(n) ==
    (/\ DeclaresNothing(n)
     /\ Queries(n)
     /\ evals[n] = 1
     /\ \A p \in pending : p.node # n)
        => (lastCall'.path = "hit" /\ ~lastCall'.invoked)

\* C36: for a node whose rule declares no widget and no input the signature
\* is constant, the evaluator is invoked exactly once over any sequence of
\* queries and of changes of the node's widgets and inputs, and every query
\* after that evaluation has completed is a cache hit.
C36_ConstantSignature ==
    /\ [](\A n \in Nodes : InvokedOnce(n))
    /\ [][\A n \in Nodes : HitAfterCompletion(n)]_vars

\* The evaluator never throws at the invocation.
NeverThrows == \A k \in DOMAIN evaluator : evaluator[k] # "throw"

\* C36 for an evaluator that never throws at the invocation.
C36_ConstantSignature_Async ==
    /\ [](NeverThrows => \A n \in Nodes : InvokedOnce(n))
    /\ [][NeverThrows => \A n \in Nodes : HitAfterCompletion(n)]_vars

\* The node's widget and input have changed since its one evaluation
\* completed, and the query that followed was a cache hit.
C36_Witness ==
    /\ lastCall.path = "hit"
    /\ DeclaresNothing(lastCall.node)
    /\ pricingTick = 1
    /\ nextId = 1
    /\ nodes[lastCall.node] = TripoNodeWith(Str("preset:run"), Num(7 * Scale))
    /\ cache[lastCall.node].has
====
